---- MODULE Spec2Model ----
(***************************************************************************)
(* Batch Intake (netlify/functions/workout-sync.js): the HTTP handler that *)
(* receives a list of workouts, skips the ones already stored for today,   *)
(* classifies the others and creates one Notion record for each.           *)
(*                                                                         *)
(* Text is a sequence of one-character strings, so that toLowerCase and    *)
(* includes are computed character by character.  A duration is a number   *)
(* of tenths of a minute (62.6 min is 626).  A start timestamp is a local  *)
(* wall-clock time with a UTC offset in hours; its ISO form is the UTC     *)
(* day and hour.  An invocation runs from one await to the next in one     *)
(* step.                                                                   *)
(***************************************************************************)
EXTENDS Integers, Sequences, FiniteSets, TLC

\* Bounds of the model.
MaxRequests == 2      \* invocations of the handler in one behaviour
MaxWorkouts == 3      \* entries submitted over all the requests of a behaviour
MaxWords == 2         \* words in a type label given to the classifier

Inv == 1..MaxRequests

----------------------------------------------------------------------------
\* Text

UpperChars == <<"A", "B", "C", "D", "E", "F", "G", "H", "I", "J", "K", "L", "M",
                "N", "O", "P", "Q", "R", "S", "T", "U", "V", "W", "X", "Y", "Z">>
LowerChars == <<"a", "b", "c", "d", "e", "f", "g", "h", "i", "j", "k", "l", "m",
                "n", "o", "p", "q", "r", "s", "t", "u", "v", "w", "x", "y", "z">>

\* String.prototype.toLowerCase on one character, then on a text.
LowerChar(c) ==
    IF \E n \in 1..26 : UpperChars[n] = c
    THEN LowerChars[CHOOSE n \in 1..26 : UpperChars[n] = c]
    ELSE c

toLowerCase(s) == [n \in 1..Len(s) |-> LowerChar(s[n])]

\* String.prototype.includes: needle occurs in hay as a contiguous run.
includes(hay, needle) ==
    \E p \in 0..(Len(hay) - Len(needle)) :
        \A n \in 1..Len(needle) : hay[p + n] = needle[n]

Kw_yoga == <<"y", "o", "g", "a">>
Kw_functional_strength ==
    <<"f", "u", "n", "c", "t", "i", "o", "n", "a", "l", " ",
      "s", "t", "r", "e", "n", "g", "t", "h">>
Kw_strength == <<"s", "t", "r", "e", "n", "g", "t", "h">>
Kw_weight == <<"w", "e", "i", "g", "h", "t">>
Kw_lifting == <<"l", "i", "f", "t", "i", "n", "g">>
Kw_bodybuilding == <<"b", "o", "d", "y", "b", "u", "i", "l", "d", "i", "n", "g">>
Kw_crosstraining == <<"c", "r", "o", "s", "s", "t", "r", "a", "i", "n", "i", "n", "g">>
Kw_cardio == <<"c", "a", "r", "d", "i", "o">>
Kw_running == <<"r", "u", "n", "n", "i", "n", "g">>
Kw_cycling == <<"c", "y", "c", "l", "i", "n", "g">>
Kw_treadmill == <<"t", "r", "e", "a", "d", "m", "i", "l", "l">>
Kw_bike == <<"b", "i", "k", "e">>
Kw_stair == <<"s", "t", "a", "i", "r">>
Kw_hiit == <<"h", "i", "i", "t">>
Kw_rowing == <<"r", "o", "w", "i", "n", "g">>
Kw_elliptical == <<"e", "l", "l", "i", "p", "t", "i", "c", "a", "l">>
Kw_walking == <<"w", "a", "l", "k", "i", "n", "g">>

Categories == {"Yoga", "Lifting", "Cardio", "Other"}

\* A plausible slip: the strength group tested before the yoga group.
categorizeWorkoutLiftingFirst(workoutType) ==
    LET type == toLowerCase(workoutType) IN
    IF \/ includes(type, Kw_functional_strength) \/ includes(type, Kw_strength)
       \/ includes(type, Kw_weight) \/ includes(type, Kw_lifting)
       \/ includes(type, Kw_bodybuilding) \/ includes(type, Kw_crosstraining)
    THEN "Lifting"
    ELSE IF includes(type, Kw_yoga) THEN "Yoga"
    ELSE IF \/ includes(type, Kw_cardio) \/ includes(type, Kw_running)
            \/ includes(type, Kw_cycling) \/ includes(type, Kw_treadmill)
            \/ includes(type, Kw_bike) \/ includes(type, Kw_stair)
            \/ includes(type, Kw_hiit) \/ includes(type, Kw_rowing)
            \/ includes(type, Kw_elliptical) \/ includes(type, Kw_walking)
    THEN "Cardio"
    ELSE "Other"

categorizeWorkout(workoutType) ==
    LET type == toLowerCase(workoutType) IN
    IF includes(type, Kw_yoga) THEN "Yoga"
    ELSE IF \/ includes(type, Kw_functional_strength) \/ includes(type, Kw_strength)
            \/ includes(type, Kw_weight) \/ includes(type, Kw_lifting)
            \/ includes(type, Kw_bodybuilding) \/ includes(type, Kw_crosstraining)
    THEN "Lifting"
    ELSE IF \/ includes(type, Kw_cardio) \/ includes(type, Kw_running)
            \/ includes(type, Kw_cycling) \/ includes(type, Kw_treadmill)
            \/ includes(type, Kw_bike) \/ includes(type, Kw_stair)
            \/ includes(type, Kw_hiit) \/ includes(type, Kw_rowing)
            \/ includes(type, Kw_elliptical) \/ includes(type, Kw_walking)
    THEN "Cardio"
    ELSE "Other"

----------------------------------------------------------------------------
\* Numbers and timestamps

\* Math.round on a number of tenths: the nearest integer, a half rounded up.
MathRound(tenths) == (tenths + 5) \div 10

\* new Date(startDate).toISOString(): the instant in UTC.  It throws a
\* RangeError ("Invalid time value") when startDate is no timestamp.
IsValidDate(startDate) == startDate.valid

toISOString(startDate) ==
    LET utc == startDate.hour - startDate.off IN
    IF utc < 0 THEN [day |-> startDate.day - 1, hour |-> utc + 24]
    ELSE IF utc >= 24 THEN [day |-> startDate.day + 1, hour |-> utc - 24]
    ELSE [day |-> startDate.day, hour |-> utc]

\* isoString.split('T')[0]: the UTC calendar day.
DatePart(iso) == iso.day

----------------------------------------------------------------------------
\* Inputs: the requests the handler is given

TxtYoga == <<"Y", "o", "g", "a">>
TxtSwimming == <<"S", "w", "i", "m", "m", "i", "n", "g">>
TxtRunning == <<"R", "u", "n", "n", "i", "n", "g">>
TxtAppleWatch == <<"A", "p", "p", "l", "e", " ", "W", "a", "t", "c", "h">>
TxtShortcut == <<"S", "h", "o", "r", "t", "c", "u", "t">>

\* The server's UTC calendar day while the requests of a behaviour are handled.
ServerDays == {1, 2}

\* 62.6 minutes of yoga on day 1 at 08:00Z.
WorkoutA ==
    [type |-> TxtYoga, duration |-> 626, calories |-> 180, source |-> TxtShortcut,
     startDate |-> [valid |-> TRUE, day |-> 1, hour |-> 8, off |-> 0]]
\* The same instant written as 10:00+02:00, 63 minutes, no calories, no source.
WorkoutB ==
    [type |-> TxtYoga, duration |-> 630,
     startDate |-> [valid |-> TRUE, day |-> 1, hour |-> 10, off |-> 2]]
\* A negative duration; day 2 at 01:00+02:00 is day 1 at 23:00Z.
WorkoutC ==
    [type |-> TxtSwimming, duration |-> -50, calories |-> 0,
     startDate |-> [valid |-> TRUE, day |-> 2, hour |-> 1, off |-> 2]]
\* A startDate that is no timestamp.
WorkoutD ==
    [type |-> TxtRunning, duration |-> 304, calories |-> 250,
     startDate |-> [valid |-> FALSE, day |-> 0, hour |-> 0, off |-> 0]]

WorkoutObjects == {WorkoutA, WorkoutB, WorkoutC, WorkoutD}

\* event.body: a text that is no JSON, or the JSON value it parses to.
BodyGarbage == [kind |-> "text"]
BodyNull == [kind |-> "json", value |-> [t |-> "null"]]
BodyNoWorkouts ==
    [kind |-> "json", value |-> [t |-> "object", workouts |-> [t |-> "undefined"]]]
BodyNotAList ==
    [kind |-> "json", value |-> [t |-> "object", workouts |-> [t |-> "string"]]]
BodyList(ws) ==
    [kind |-> "json",
     value |-> [t |-> "object", workouts |-> [t |-> "array", items |-> ws]]]

WorkoutLists(n) == UNION {[1..m -> WorkoutObjects] : m \in 0..n}

IsList(body) ==
    /\ body.kind = "json"
    /\ body.value.t = "object"
    /\ body.value.workouts.t = "array"

Items(body) == IF IsList(body) THEN body.value.workouts.items ELSE <<>>

\* The requests that carry at most n entries.
Requests(n) ==
    {[httpMethod |-> "POST", body |-> b] :
        b \in {BodyGarbage, BodyNull, BodyNoWorkouts, BodyNotAList}
              \cup {BodyList(ws) : ws \in WorkoutLists(n)}}
    \cup {[httpMethod |-> m, body |-> b] :
            m \in {"OPTIONS", "GET"},
            b \in {BodyGarbage}
                  \cup (IF n >= 1 THEN {BodyList(<<WorkoutA>>)} ELSE {})}

----------------------------------------------------------------------------
\* The handler's responses

Json(value) == [kind |-> "json", json |-> value]

PreflightResponse == [statusCode |-> 200, body |-> [kind |-> "empty"]]

MethodNotAllowedResponse ==
    [statusCode |-> 405, body |-> Json([error |-> "Method not allowed"])]

InvalidDataResponse ==
    [statusCode |-> 400, body |-> Json([error |-> "Invalid workout data"])]

ErrorResponse(message) ==
    [statusCode |-> 500,
     body |-> Json([error |-> "Failed to process workout data", details |-> message])]

\* The summary text, kept as its parts: the counts, one line for each added
\* entry and one for each skipped entry.
Summary(workouts, results, skippedItems) ==
    [processed |-> Len(workouts),
     added |-> Len(results),
     skipped |-> Len(skippedItems),
     lines |-> [n \in 1..Len(results) |->
                  <<results[n].workout, results[n].duration, results[n].category>>],
     skippedLines |-> [n \in 1..Len(skippedItems) |->
                  <<skippedItems[n].workout, skippedItems[n].duration>>]]

SuccessResponse(workouts, results, skippedItems) ==
    [statusCode |-> 200,
     body |-> Json([success |-> TRUE,
                    summary |-> Summary(workouts, results, skippedItems),
                    added |-> Len(results),
                    skipped |-> Len(skippedItems),
                    workouts |-> results,
                    duplicates |-> skippedItems])]

NoRequest == [httpMethod |-> "", body |-> BodyGarbage]
NoResponse == [statusCode |-> 0, body |-> [kind |-> "empty"]]

----------------------------------------------------------------------------
\* State

VARIABLES
    today,      \* the server's UTC calendar day
    db,         \* the Notion database: the pages created, oldest first
    nreq,       \* requests received so far
    submitted,  \* entries carried by the requests received so far
    pc,         \* per invocation: "idle", "querying", "creating" or "done"
    req,        \* per invocation: the event
    existing,   \* per invocation: existingWorkouts.results
    idx,        \* per invocation: the position of the for-of loop (from 1)
    results,    \* per invocation: results
    skipped,    \* per invocation: skipped
    resp,       \* per invocation: the response returned
    queryDay,   \* history: the day the invocation asked the database for
    calls,      \* history: the database calls the invocation has issued
    order,      \* history: <<entry position, outcome>> in the order recorded
    raised,     \* history: what threw inside the try block ("none" if nothing)
    parsed,     \* history: whether JSON.parse was applied to the body
    startLen    \* history: the number of pages when the request arrived

vars == <<today, db, nreq, submitted, pc, req, existing, idx, results, skipped,
          resp, queryDay, calls, order, raised, parsed, startLen>>

Init ==
    /\ today \in ServerDays
    /\ db = <<>>
    /\ nreq = 0
    /\ submitted = 0
    /\ pc = [i \in Inv |-> "idle"]
    /\ req = [i \in Inv |-> NoRequest]
    /\ existing = [i \in Inv |-> <<>>]
    /\ idx = [i \in Inv |-> 0]
    /\ results = [i \in Inv |-> <<>>]
    /\ skipped = [i \in Inv |-> <<>>]
    /\ resp = [i \in Inv |-> NoResponse]
    /\ queryDay = [i \in Inv |-> 0]
    /\ calls = [i \in Inv |-> <<>>]
    /\ order = [i \in Inv |-> <<>>]
    /\ raised = [i \in Inv |-> "none"]
    /\ parsed = [i \in Inv |-> FALSE]
    /\ startLen = [i \in Inv |-> 0]

----------------------------------------------------------------------------
\* The external database

\* notion.databases.query with the filter Date equals day.
Query(database, day) == SelectSeq(database, LAMBDA page : page.Date = day)

\* The page notion.pages.create stores for a workout.  origin is history: the
\* invocation and the entry position the page was created for.
NewPage(workout, id, origin) ==
    [id |-> id,
     Date |-> DatePart(toISOString(workout.startDate)),
     WorkoutType |-> categorizeWorkout(workout.type),
     SpecificActivity |-> workout.type,
     DurationMinutes |-> MathRound(workout.duration),
     Calories |-> IF "calories" \in DOMAIN workout THEN workout.calories ELSE 0,
     Source |-> IF "source" \in DOMAIN workout THEN workout.source ELSE TxtAppleWatch,
     StartTime |-> toISOString(workout.startDate),
     origin |-> origin]

----------------------------------------------------------------------------
\* The handler, from one await to the next

\* The method checks that precede the try block.
DispatchPostOnly(httpMethod) ==
    IF httpMethod # "POST" THEN "reject" ELSE "process"

Dispatch(httpMethod) ==
    IF httpMethod = "OPTIONS" THEN "preflight"
    ELSE IF httpMethod # "POST" THEN "reject"
    ELSE "process"

\* A re-check against the database as it is now, not as it was queried.
isDuplicateLive(existingResults, workout) ==
    \E n \in 1..Len(db) :
        /\ db[n].SpecificActivity = workout.type
        /\ db[n].DurationMinutes = MathRound(workout.duration)
        /\ db[n].StartTime = toISOString(workout.startDate)

isDuplicate(existingResults, workout) ==
    \E n \in 1..Len(existingResults) :
        /\ existingResults[n].SpecificActivity = workout.type
        /\ existingResults[n].DurationMinutes = MathRound(workout.duration)
        /\ existingResults[n].StartTime = toISOString(workout.startDate)

SkipItem(workout) ==
    [workout |-> workout.type,
     duration |-> MathRound(workout.duration),
     reason |-> "Already exists"]

ResultItem(workout, notionId) ==
    [workout |-> workout.type,
     duration |-> MathRound(workout.duration),
     category |-> categorizeWorkout(workout.type),
     notionId |-> notionId]

\* The loop without its continue: a duplicate is recorded as skipped and
\* created all the same.
ScanNoContinue(workouts, k, existingResults, sk, ord) ==
    IF k > Len(workouts)
    THEN [k |-> k, skipped |-> sk, order |-> ord, out |-> "end"]
    ELSE IF ~IsValidDate(workouts[k].startDate)
    THEN [k |-> k, skipped |-> sk, order |-> ord, out |-> "throw"]
    ELSE IF isDuplicate(existingResults, workouts[k])
    THEN [k |-> k, skipped |-> Append(sk, SkipItem(workouts[k])),
          order |-> Append(ord, <<k, "skipped">>), out |-> "create"]
    ELSE [k |-> k, skipped |-> sk, order |-> ord, out |-> "create"]

\* The for-of loop from position k up to its next await: the entries found
\* to be duplicates are skipped; it stops at the first entry to create
\* ("create"), at a startDate that throws ("throw") or past the last entry
\* ("end").
RECURSIVE Scan(_, _, _, _, _)
Scan(workouts, k, existingResults, sk, ord) ==
    IF k > Len(workouts)
    THEN [k |-> k, skipped |-> sk, order |-> ord, out |-> "end"]
    ELSE IF ~IsValidDate(workouts[k].startDate)
    THEN [k |-> k, skipped |-> sk, order |-> ord, out |-> "throw"]
    ELSE IF isDuplicate(existingResults, workouts[k])
    THEN Scan(workouts, k + 1, existingResults,
              Append(sk, SkipItem(workouts[k])), Append(ord, <<k, "skipped">>))
    ELSE [k |-> k, skipped |-> sk, order |-> ord, out |-> "create"]

\* Invocation i goes on from entry k: it issues the next create call, or it
\* returns.
Resume(i, k, existingResults, res, sk, ord) ==
    LET workouts == Items(req[i].body)
        s == Scan(workouts, k, existingResults, sk, ord)
    IN  /\ idx' = [idx EXCEPT ![i] = s.k]
        /\ skipped' = [skipped EXCEPT ![i] = s.skipped]
        /\ order' = [order EXCEPT ![i] = s.order]
        /\ IF s.out = "create"
           THEN /\ pc' = [pc EXCEPT ![i] = "creating"]
                /\ calls' = [calls EXCEPT ![i] = Append(@, "create")]
                /\ UNCHANGED resp
           ELSE IF s.out = "throw"
           THEN /\ pc' = [pc EXCEPT ![i] = "done"]
                /\ resp' = [resp EXCEPT ![i] = ErrorResponse("Invalid time value")]
                /\ UNCHANGED calls
           ELSE /\ pc' = [pc EXCEPT ![i] = "done"]
                /\ resp' = [resp EXCEPT ![i] = SuccessResponse(workouts, res, s.skipped)]
                /\ UNCHANGED calls

\* What is recorded as thrown when invocation i goes on from entry k: the
\* RangeError of an invalid startDate, if the loop meets one.
Thrown(i, k, existingResults) ==
    IF Scan(Items(req[i].body), k, existingResults, <<>>, <<>>).out = "throw"
    THEN [raised EXCEPT ![i] = "date"]
    ELSE raised

\* A per-entry catch: the failure is dropped and the loop goes on.
CatchAndContinue(i, message) ==
    Resume(i, idx[i] + 1, existing[i], results[i], skipped[i], order[i])

\* The catch block: the invocation answers 500 and ends.
Catch(i, message) ==
    /\ pc' = [pc EXCEPT ![i] = "done"]
    /\ resp' = [resp EXCEPT ![i] = ErrorResponse(message)]
    /\ UNCHANGED <<idx, skipped, order, calls>>

\* The handler is invoked with event r: the method checks, JSON.parse, the
\* validation of workouts, and the day query issued.
Receive(i, r) ==
    /\ pc[i] = "idle"
    /\ i = nreq + 1
    /\ submitted + Len(Items(r.body)) <= MaxWorkouts
    /\ nreq' = nreq + 1
    /\ submitted' = submitted + Len(Items(r.body))
    /\ req' = [req EXCEPT ![i] = r]
    /\ startLen' = [startLen EXCEPT ![i] = Len(db)]
    /\ UNCHANGED <<today, db, existing, idx, results, skipped, order>>
    /\ IF Dispatch(r.httpMethod) = "preflight"
       THEN /\ pc' = [pc EXCEPT ![i] = "done"]
            /\ resp' = [resp EXCEPT ![i] = PreflightResponse]
            /\ UNCHANGED <<queryDay, calls, raised, parsed>>
       ELSE IF Dispatch(r.httpMethod) = "reject"
       THEN /\ pc' = [pc EXCEPT ![i] = "done"]
            /\ resp' = [resp EXCEPT ![i] = MethodNotAllowedResponse]
            /\ UNCHANGED <<queryDay, calls, raised, parsed>>
       ELSE /\ parsed' = [parsed EXCEPT ![i] = TRUE]
            /\ IF r.body.kind # "json"
               THEN /\ pc' = [pc EXCEPT ![i] = "done"]
                    /\ resp' = [resp EXCEPT ![i] = ErrorResponse("Unexpected token")]
                    /\ raised' = [raised EXCEPT ![i] = "parse"]
                    /\ UNCHANGED <<queryDay, calls>>
               ELSE IF r.body.value.t = "null"
               THEN /\ pc' = [pc EXCEPT ![i] = "done"]
                    /\ resp' = [resp EXCEPT ![i] = ErrorResponse("Cannot destructure")]
                    /\ raised' = [raised EXCEPT ![i] = "destructure"]
                    /\ UNCHANGED <<queryDay, calls>>
               ELSE IF r.body.value.workouts.t # "array"
               THEN /\ pc' = [pc EXCEPT ![i] = "done"]
                    /\ resp' = [resp EXCEPT ![i] = InvalidDataResponse]
                    /\ UNCHANGED <<queryDay, calls, raised>>
               ELSE /\ pc' = [pc EXCEPT ![i] = "querying"]
                    /\ queryDay' = [queryDay EXCEPT ![i] = today]
                    /\ calls' = [calls EXCEPT ![i] = <<"query">>]
                    /\ UNCHANGED <<resp, raised>>

\* The day query returns the pages dated queryDay; the loop starts.
QueryReturns(i) ==
    /\ pc[i] = "querying"
    /\ existing' = [existing EXCEPT ![i] = Query(db, queryDay[i])]
    /\ Resume(i, 1, Query(db, queryDay[i]), <<>>, <<>>, <<>>)
    /\ raised' = Thrown(i, 1, Query(db, queryDay[i]))
    /\ UNCHANGED <<today, db, nreq, submitted, req, results, queryDay, parsed, startLen>>

\* The day query throws: the catch block answers.
QueryThrows(i) ==
    /\ pc[i] = "querying"
    /\ raised' = [raised EXCEPT ![i] = "query"]
    /\ Catch(i, "query failed")
    /\ UNCHANGED <<today, db, nreq, submitted, req, existing, results, queryDay,
                   parsed, startLen>>

\* The create call for entry idx[i] returns: the page is stored, the result
\* is recorded, the loop goes on.
CreateReturns(i) ==
    /\ pc[i] = "creating"
    /\ LET workout == Items(req[i].body)[idx[i]]
           page == NewPage(workout, Len(db) + 1, <<i, idx[i]>>)
           res == Append(results[i], ResultItem(workout, page.id))
       IN  /\ db' = Append(db, page)
           /\ results' = [results EXCEPT ![i] = res]
           /\ Resume(i, idx[i] + 1, existing[i], res, skipped[i],
                     Append(order[i], <<idx[i], "added">>))
    /\ raised' = Thrown(i, idx[i] + 1, existing[i])
    /\ UNCHANGED <<today, nreq, submitted, req, existing, queryDay, parsed, startLen>>

\* The create call for entry idx[i] throws: the catch block answers.
CreateThrows(i) ==
    /\ pc[i] = "creating"
    /\ raised' = [raised EXCEPT ![i] = "create"]
    /\ Catch(i, "create failed")
    /\ UNCHANGED <<today, db, nreq, submitted, req, existing, results, queryDay,
                   parsed, startLen>>

\* No other invocation is under way.
Sequential(i) == \A j \in Inv \ {i} : pc[j] \in {"idle", "done"}

Next ==
    \/ \E i \in Inv :
          /\ pc[i] = "idle" /\ i = nreq + 1 /\ Sequential(i)
          /\ \E r \in Requests(MaxWorkouts - submitted) : Receive(i, r)
    \/ \E i \in Inv : QueryReturns(i)
    \/ \E i \in Inv : QueryThrows(i)
    \/ \E i \in Inv : CreateReturns(i)
    \/ \E i \in Inv : CreateThrows(i)

\* Requests are handled one after the other.
Spec == Init /\ [][Next]_vars

----------------------------------------------------------------------------
\* Overlapping invocations: each carries one entry; a request may arrive
\* while others are under way.

ConcRequests == {[httpMethod |-> "POST", body |-> BodyList(<<w>>)] : w \in WorkoutObjects}

NextConc ==
    \/ \E i \in Inv :
          /\ pc[i] = "idle" /\ i = nreq + 1
          /\ \E r \in ConcRequests : Receive(i, r)
    \/ \E i \in Inv : QueryReturns(i)
    \/ \E i \in Inv : QueryThrows(i)
    \/ \E i \in Inv : CreateReturns(i)
    \/ \E i \in Inv : CreateThrows(i)

SpecConc == Init /\ [][NextConc]_vars

----------------------------------------------------------------------------
\* The classifier on type labels: one request that carries one entry whose
\* type is a label of at most MaxWords words.

Words ==
    { <<"y", "o", "g", "a">>,
      <<"Y", "O", "G", "A">>,
      <<"Y", "o", "G", "a">>,
      <<"w", "e", "i", "g", "h", "t">>,
      <<"S", "t", "r", "e", "n", "g", "t", "h">>,
      <<"l", "i", "f", "t", "i", "n", "g">>,
      <<"b", "o", "d", "y", "b", "u", "i", "l", "d", "i", "n", "g">>,
      <<"c", "r", "o", "s", "s", "t", "r", "a", "i", "n", "i", "n", "g">>,
      <<"R", "u", "n">>,
      <<"R", "U", "N", "N", "I", "N", "G">>,
      <<"r", "i", "d", "e">>,
      <<"C", "y", "c", "l", "i", "n", "g">>,
      <<"b", "i", "k", "e">>,
      <<"S", "w", "i", "m">>,
      <<"c", "a", "r", "d", "i", "o">>,
      <<"H", "I", "I", "T">>,
      <<"t", "r", "e", "a", "d", "m", "i", "l", "l">>,
      <<"s", "t", "a", "i", "r">>,
      <<"r", "o", "w", "i", "n", "g">>,
      <<"e", "l", "l", "i", "p", "t", "i", "c", "a", "l">>,
      <<"w", "a", "l", "k", "i", "n", "g">>,
      <<"T", "R", "A", "I", "L">>,
      <<"P", "i", "l", "a", "t", "e", "s">>,
      <<"D", "a", "n", "c", "e">> }

RECURSIVE LabelsOf(_)
LabelsOf(n) ==
    IF n <= 1 THEN Words
    ELSE LabelsOf(n - 1) \cup {w \o <<" ">> \o l : w \in Words, l \in LabelsOf(n - 1)}

Labels == LabelsOf(MaxWords)

LabelRequest(label) ==
    [httpMethod |-> "POST",
     body |-> BodyList(<<[type |-> label, duration |-> 300,
                          startDate |-> [valid |-> TRUE, day |-> 1, hour |-> 8, off |-> 0]]>>)]

NextClassify ==
    \/ nreq = 0 /\ \E label \in Labels : Receive(1, LabelRequest(label))
    \/ \E i \in Inv : QueryReturns(i)
    \/ \E i \in Inv : QueryThrows(i)
    \/ \E i \in Inv : CreateReturns(i)
    \/ \E i \in Inv : CreateThrows(i)

SpecClassify == Init /\ [][NextClassify]_vars

----------------------------------------------------------------------------
\* What the properties speak of

Done(i) == pc[i] = "done"

Answer(i) == resp[i].body.json

IsPost(i) == req[i].httpMethod = "POST"

\* The composite dedup key of a stored page and of a submitted entry.
PageKey(page) == <<page.SpecificActivity, page.DurationMinutes, page.StartTime>>

EntryKey(workout) ==
    <<workout.type, MathRound(workout.duration), toISOString(workout.startDate)>>

PagesWithKey(key) == {n \in 1..Len(db) : PageKey(db[n]) = key}

PagesOf(i) == {n \in 1..Len(db) : db[n].origin[1] = i}

CountOf(seq, x) == Cardinality({n \in 1..Len(seq) : seq[n] = x})

\* The entries of invocation i recorded with outcome o, as positions in the
\* order recorded.
Recorded(i, o) == SelectSeq(order[i], LAMBDA e : e[2] = o)

\* needle occurs in s with each letter in either case.
UpperChar(c) ==
    IF \E n \in 1..26 : LowerChars[n] = c
    THEN UpperChars[CHOOSE n \in 1..26 : LowerChars[n] = c]
    ELSE c

ContainsAnyCase(s, needle) ==
    \E p \in 0..(Len(s) - Len(needle)) :
        \A n \in 1..Len(needle) : s[p + n] \in {needle[n], UpperChar(needle[n])}

\* The keyword groups as the specification lists them.
SpecLiftingKeywords ==
    {Kw_weight, Kw_strength, Kw_lifting, Kw_bodybuilding, Kw_crosstraining}

SpecCardioKeywords ==
    {<<"r", "u", "n">>, Kw_running, <<"r", "i", "d", "e">>, Kw_cycling, Kw_bike,
     <<"s", "w", "i", "m">>, Kw_cardio, Kw_hiit, Kw_treadmill, Kw_stair, Kw_rowing,
     Kw_elliptical, Kw_walking}

SpecCategory(label) ==
    IF ContainsAnyCase(label, Kw_yoga) THEN "Yoga"
    ELSE IF \E kw \in SpecLiftingKeywords : ContainsAnyCase(label, kw) THEN "Lifting"
    ELSE IF \E kw \in SpecCardioKeywords : ContainsAnyCase(label, kw) THEN "Cardio"
    ELSE "Other"

HasNoKeyword(label) ==
    \A kw \in {Kw_yoga} \cup SpecLiftingKeywords \cup SpecCardioKeywords :
        ~ContainsAnyCase(label, kw)

\* The entry a page was created for.
Submitted(page) == Items(req[page.origin[1]].body)[page.origin[2]]

----------------------------------------------------------------------------
\* C1: when two POST requests that carry the same single entry are handled
\* one after the other on the same day, both answered 200, and no page with
\* the entry's key existed before the first, then the database holds exactly
\* one page with that key and the second answer reports added 0, skipped 1
\* and one duplicate with reason "Already exists".
C1_BatchDedupAcrossRequests ==
    \A i \in Inv, j \in Inv :
        ( /\ j = i + 1
          /\ Done(i) /\ Done(j)
          /\ IsPost(i) /\ IsPost(j)
          /\ resp[i].statusCode = 200 /\ resp[j].statusCode = 200
          /\ queryDay[i] = queryDay[j]
          /\ Len(Items(req[i].body)) = 1
          /\ Items(req[j].body) = Items(req[i].body)
          /\ \A n \in 1..startLen[i] :
                PageKey(db[n]) # EntryKey(Items(req[i].body)[1]) )
        => /\ Cardinality(PagesWithKey(EntryKey(Items(req[i].body)[1]))) = 1
           /\ Answer(j).added = 0
           /\ Answer(j).skipped = 1
           /\ Len(Answer(j).duplicates) = 1
           /\ Answer(j).duplicates[1].reason = "Already exists"

\* C2: no two pages of the database have the same composite dedup key
\* (Specific Activity, Duration (Minutes), Start Time).
C2_DedupKeyUnique ==
    \A m \in 1..Len(db), n \in 1..Len(db) :
        m # n => PageKey(db[m]) # PageKey(db[n])

\* C3: a POST whose body is no JSON, or has no list under workouts, is
\* answered 400 with an error field, and no database call is issued.
C3_MalformedInput400 ==
    \A i \in Inv :
        (Done(i) /\ IsPost(i) /\ ~IsList(req[i].body))
        => /\ resp[i].statusCode = 400
           /\ "error" \in DOMAIN Answer(i)
           /\ calls[i] = <<>>

\* C4: when the day query or a create call throws, the answer is 500 with
\* error and details and nothing else; the call that threw is the last call
\* issued; no entry after the failing one has an outcome; the pages created
\* before it stay in the database; a failing day query leaves no create.
C4_FailFast ==
    \A i \in Inv :
        (Done(i) /\ raised[i] \in {"query", "create"})
        => /\ resp[i].statusCode = 500
           /\ DOMAIN Answer(i) = {"error", "details"}
           /\ calls[i][Len(calls[i])] = raised[i]
           /\ CountOf(calls[i], "query") = 1
           /\ CountOf(calls[i], "create") =
                 Len(results[i]) + (IF raised[i] = "create" THEN 1 ELSE 0)
           /\ \A n \in 1..Len(order[i]) : order[i][n][1] < idx[i]
           /\ Cardinality(PagesOf(i)) = Len(results[i])
           /\ \A n \in 1..Len(results[i]) :
                 \E m \in PagesOf(i) : db[m].id = results[i][n].notionId
           /\ raised[i] = "query" => (calls[i] = <<"query">> /\ PagesOf(i) = {})

\* A create call threw on the second entry or later, after a page was
\* created for an earlier entry of the same request.
C4_Witness ==
    \E i \in Inv :
        /\ Done(i) /\ raised[i] = "create"
        /\ idx[i] >= 2
        /\ PagesOf(i) # {}

\* C5: OPTIONS is answered 200 with an empty body, and a method other than
\* POST and OPTIONS is answered 405 {"error": "Method not allowed"}; in both
\* cases the body is not parsed and no database call is issued.
C5_MethodDispatch ==
    \A i \in Inv :
        Done(i) =>
          /\ req[i].httpMethod = "OPTIONS" =>
                /\ resp[i] = [statusCode |-> 200, body |-> [kind |-> "empty"]]
                /\ ~parsed[i] /\ calls[i] = <<>> /\ PagesOf(i) = {}
          /\ req[i].httpMethod \notin {"POST", "OPTIONS"} =>
                /\ resp[i].statusCode = 405
                /\ resp[i].body.kind = "json"
                /\ Answer(i) = [error |-> "Method not allowed"]
                /\ ~parsed[i] /\ calls[i] = <<>> /\ PagesOf(i) = {}

\* An OPTIONS request and a GET request, one with a body that is no JSON and
\* one with a valid list, have both been answered.
C5_Witness ==
    \E i \in Inv, j \in Inv :
        /\ Done(i) /\ req[i].httpMethod = "OPTIONS" /\ IsList(req[i].body)
        /\ Done(j) /\ req[j].httpMethod = "GET" /\ req[j].body = BodyGarbage

\* C6: the category stored and reported for a type label is one of Yoga,
\* Lifting, Cardio, Other; it is Yoga when the label contains "yoga" in any
\* letter case, and Other when the label contains no keyword of any group.
C6_ClassifierTotalYogaWins ==
    /\ \A n \in 1..Len(db) :
          /\ db[n].WorkoutType \in Categories
          /\ ContainsAnyCase(db[n].SpecificActivity, Kw_yoga)
                => db[n].WorkoutType = "Yoga"
          /\ HasNoKeyword(db[n].SpecificActivity) => db[n].WorkoutType = "Other"
    /\ \A i \in Inv : \A n \in 1..Len(results[i]) :
          /\ results[i][n].category \in Categories
          /\ ContainsAnyCase(results[i][n].workout, Kw_yoga)
                => results[i][n].category = "Yoga"
          /\ HasNoKeyword(results[i][n].workout) => results[i][n].category = "Other"

\* A page was stored as Yoga for a label that has "yoga" not in lower case
\* and a strength keyword too; and the request was answered.
C6_Witness ==
    \E i \in Inv :
        /\ Done(i) /\ resp[i].statusCode = 200
        /\ \E n \in PagesOf(i) :
              /\ ContainsAnyCase(db[n].SpecificActivity, Kw_yoga)
              /\ ~includes(db[n].SpecificActivity, Kw_yoga)
              /\ ContainsAnyCase(db[n].SpecificActivity, Kw_strength)
              /\ db[n].WorkoutType = "Yoga"

\* C7: the category stored for a type label is the first match of the
\* specification's ordered keyword groups, "run", "ride" and "swim" among
\* the cardio keywords.
C7_ClassifierMatchesSpecGroups ==
    \A n \in 1..Len(db) : db[n].WorkoutType = SpecCategory(db[n].SpecificActivity)

\* C8: every page's Duration (Minutes) is a non-negative integer, the
\* nearest to the submitted duration, and is the duration reported.
C8_DurationNonNegativeRounded ==
    \A n \in 1..Len(db) :
        LET d == db[n].DurationMinutes
            raw == Submitted(db[n]).duration
        IN  /\ d \in Nat
            /\ 10 * d - raw <= 5 /\ raw - 10 * d <= 5
            /\ \A i \in Inv : \A m \in 1..Len(results[i]) :
                  results[i][m].notionId = db[n].id => results[i][m].duration = d

\* C9: the duplicate check of an invocation reads only the pages its own day
\* query returned: two answered invocations that carry the same entry and
\* whose queries both returned no match have each created a page, so the
\* database holds two pages with one key.
C9_UncoordinatedInvocations ==
    \A i \in Inv, j \in Inv :
        ( /\ i # j
          /\ Done(i) /\ Done(j)
          /\ resp[i].statusCode = 200 /\ resp[j].statusCode = 200
          /\ Len(Items(req[i].body)) = 1
          /\ Items(req[j].body) = Items(req[i].body)
          /\ \A n \in 1..Len(existing[i]) :
                PageKey(existing[i][n]) # EntryKey(Items(req[i].body)[1])
          /\ \A n \in 1..Len(existing[j]) :
                PageKey(existing[j][n]) # EntryKey(Items(req[j].body)[1]) )
        => /\ Cardinality(PagesWithKey(EntryKey(Items(req[i].body)[1]))) >= 2
           /\ PagesOf(i) # {} /\ PagesOf(j) # {}
           /\ Answer(i).added = 1 /\ Answer(j).added = 1

\* Two invocations carrying the same entry, dated the day they queried, both
\* queried before either page was created, and both created a page.
C9_Witness ==
    \E i \in Inv, j \in Inv :
        /\ i < j
        /\ Done(i) /\ Done(j)
        /\ resp[i].statusCode = 200 /\ resp[j].statusCode = 200
        /\ Items(req[j].body) = Items(req[i].body)
        /\ Len(Items(req[i].body)) = 1
        /\ existing[i] = <<>> /\ existing[j] = <<>>
        /\ \E m \in PagesOf(i), n \in PagesOf(j) :
              /\ PageKey(db[m]) = PageKey(db[n])
              /\ db[m].Date = queryDay[i] /\ db[n].Date = queryDay[j]
        /\ Len(db) = 2

\* C10: a POST answered 200 issued exactly one day query, before every
\* create call; each entry has exactly one outcome, recorded in input order;
\* added + skipped is the number of entries; the create calls are as many as
\* added; workouts and duplicates list their entries in input order.
C10_PerEntryAccounting ==
    \A i \in Inv :
        (Done(i) /\ IsPost(i) /\ resp[i].statusCode = 200)
        => LET items == Items(req[i].body)
               added == Recorded(i, "added")
               dups == Recorded(i, "skipped")
           IN  /\ calls[i][1] = "query"
               /\ \A n \in 2..Len(calls[i]) : calls[i][n] = "create"
               /\ Len(order[i]) = Len(items)
               /\ \A n \in 1..Len(order[i]) : order[i][n][1] = n
               /\ Answer(i).added + Answer(i).skipped = Len(items)
               /\ CountOf(calls[i], "create") = Answer(i).added
               /\ Cardinality(PagesOf(i)) = Answer(i).added
               /\ Len(Answer(i).workouts) = Len(added)
               /\ Answer(i).added = Len(added)
               /\ \A n \in 1..Len(added) :
                     /\ Answer(i).workouts[n].workout = items[added[n][1]].type
                     /\ \E m \in PagesOf(i) :
                           /\ db[m].id = Answer(i).workouts[n].notionId
                           /\ db[m].origin[2] = added[n][1]
               /\ Len(Answer(i).duplicates) = Len(dups)
               /\ Answer(i).skipped = Len(dups)
               /\ \A n \in 1..Len(dups) :
                     Answer(i).duplicates[n].workout = items[dups[n][1]].type

\* A request of at least two entries was answered 200 with one entry added
\* and one skipped.
C10_Witness ==
    \E i \in Inv :
        /\ Done(i) /\ IsPost(i) /\ resp[i].statusCode = 200
        /\ Len(Items(req[i].body)) >= 2
        /\ Answer(i).added >= 1
        /\ Answer(i).skipped >= 1

====
